---------------------------- MODULE Spec2Model ----------------------------
(***************************************************************************)
(* Model of Script(Modded).py: the orchestrator main(), the backward month *)
(* search get_score() and the helpers they call.  The config file is a     *)
(* sequence of lines (section headers and "key = value" options); the      *)
(* in-memory ConfigParser object is a function from section names to       *)
(* functions from option keys to string values.  The HTTP API and the      *)
(* file system are the environment: each fetch yields one of four results, *)
(* each open(config_file, 'w') either succeeds or raises OSError before    *)
(* the file is touched.                                                    *)
(*                                                                         *)
(* Not modelled: logging, ConfigParser value interpolation ('%'), the      *)
(* DEFAULT section, and a config file that is unreadable on (re)load.      *)
(* The fall-through return of get_score (line 168) is unreachable: every   *)
(* path that increments years_checked tests it and returns inside the loop.*)
(***************************************************************************)
EXTENDS Integers, Sequences, FiniteSets, TLC

VARIABLES
    file,             \* inputs.conf on disk: sequence of lines
    config,           \* main's ConfigParser object: section -> (key -> value)
    sections,         \* main's `sections` list (config.sections())
    pc,               \* position of the single thread of control
    idx,              \* index in `sections` of the main-pass loop
    today,            \* datetime.today(): [year, month]
    property_id,      \* get_score argument
    year,             \* get_score local
    month,            \* get_score local
    years_checked,    \* get_score local
    updated_count,    \* main's tallies
    skipped_count,
    error_count,
    result,           \* last value returned by get_score: [called, success, year, month]
    outcome,          \* per section: how main tallied it in this run
    httpCalls,        \* per section: requests.get calls made in this run
    foundCount,       \* fetches of the current get_score call that yielded a score
    lastFetch,        \* result of the last fetch of the current get_score call
    writes,           \* open(config_file, 'w') calls attempted in this run
    writesAtFound,    \* value of `writes` when the current score was found
    writeFailures,    \* file writes that raised, over the whole behaviour
    writeFailed,      \* a file write raised in this run
    onlyEmpty,        \* every fetch so far, in all runs, returned an empty score
    fileAtStart,      \* the file as it was when this run started
    run,              \* number of the current run of main
    fileAfterRun1,    \* the file as the first run left it
    run1Completed     \* the first run reached its final tally

vars == <<file, config, sections, pc, idx, today, property_id, year, month,
          years_checked, updated_count, skipped_count, error_count, result,
          outcome, httpCalls, foundCount, lastFetch, writes, writesAtFound,
          writeFailures, writeFailed, onlyEmpty, fileAtStart, run,
          fileAfterRun1, run1Completed>>

----------------------------------------------------------------------------
(* Program constants *)

WeatherSection == "rest://WeatherTest3"
SentinelInterval == "999999"
NeverSchedule == "0 0 5 31 2 ?"
max_years_to_check == 1
BaseUrl == "https://portfoliomanager.energystar.gov/ws/property/"

(* Model values *)

None == "None"
NoFetch == "none"
EmptyFn == [k \in {} |-> ""]

(* Bounds *)

MaxWriteFailures == 1

(* Inputs: section names, option values and start dates of the initial    *)
(* config files                                                            *)

PropertyA == "rest://PropertyA"
PropertyB == "rest://PropertyB"
SectionNames == {PropertyA, PropertyB, WeatherSection}

Absent == "<absent>"
NoResult == [called |-> None, success |-> FALSE, year |-> 0, month |-> 0,
             firstFoundLast |-> FALSE]

Section(e, p, u, w) ==
    LET picks == ("endpoint" :> e) @@ ("polling_interval" :> p)
                 @@ ("auth_user" :> u) @@ ("auth_password" :> w)
    IN  [k \in {x \in DOMAIN picks : picks[x] # Absent} |-> picks[k]]

StartYear == 2024

----------------------------------------------------------------------------
(* ConfigParser *)

has_section(cfg, s) == s \in DOMAIN cfg

has_option(cfg, s, k) == has_section(cfg, s) /\ k \in DOMAIN cfg[s]

config_get(cfg, s, k) == cfg[s][k]

config_set(cfg, s, k, v) == [cfg EXCEPT ![s] = (k :> v) @@ @]

KeyOrder == <<"endpoint", "polling_interval", "auth_user", "auth_password">>

RECURSIVE OptionLines(_, _)
OptionLines(opts, i) ==
    IF i > Len(KeyOrder) THEN <<>>
    ELSE LET k == KeyOrder[i]
         IN  (IF k \in DOMAIN opts
                 THEN <<[kind |-> "option", key |-> k, value |-> opts[k]]>>
                 ELSE <<>>) \o OptionLines(opts, i + 1)

RECURSIVE config_write(_, _)
config_write(cfg, order) ==
    IF order = <<>> THEN <<>>
    ELSE <<[kind |-> "section", key |-> Head(order), value |-> ""]>>
         \o OptionLines(cfg[Head(order)], 1)
         \o config_write(cfg, Tail(order))

RECURSIVE ParseLines(_, _, _)
ParseLines(lines, order, opts) ==
    IF lines = <<>> THEN [sections |-> order, opts |-> opts]
    ELSE LET l == Head(lines)
         IN  IF l.kind = "section"
                THEN ParseLines(Tail(lines), Append(order, l.key),
                                (l.key :> EmptyFn) @@ opts)
                ELSE ParseLines(Tail(lines), order,
                                [opts EXCEPT ![order[Len(order)]] =
                                     (l.key :> l.value) @@ @])

read_config(lines) == ParseLines(lines, <<>>, EmptyFn)

----------------------------------------------------------------------------
(* Helpers of the script *)

(* A lookup that takes the user name alone for a credential *)

get_credentials_userOnly(cfg, s) ==
    IF ~has_section(cfg, s) THEN [ok |-> FALSE, user |-> None, password |-> None]
    ELSE IF ~has_option(cfg, s, "auth_user")
         THEN [ok |-> FALSE, user |-> None, password |-> None]
         ELSE [ok |-> TRUE, user |-> config_get(cfg, s, "auth_user"),
               password |-> None]

get_credentials_from_config(cfg, s) ==
    IF ~has_section(cfg, s) THEN [ok |-> FALSE, user |-> None, password |-> None]
    ELSE IF ~has_option(cfg, s, "auth_user") \/ ~has_option(cfg, s, "auth_password")
         THEN [ok |-> FALSE, user |-> None, password |-> None]
         ELSE [ok |-> TRUE, user |-> config_get(cfg, s, "auth_user"),
               password |-> config_get(cfg, s, "auth_password")]

Digits == {"0", "1", "2", "3", "4", "5", "6", "7", "8", "9"}

StartsWithAt(s, i, p) ==
    /\ i + Len(p) - 1 <= Len(s)
    /\ SubSeq(s, i, i + Len(p) - 1) = p

RECURSIVE DigitRunEnd(_, _)
DigitRunEnd(s, i) ==
    IF i <= Len(s) /\ SubSeq(s, i, i) \in Digits THEN DigitRunEnd(s, i + 1) ELSE i

MatchAt(s, i) ==
    /\ StartsWithAt(s, i, "/property/")
    /\ LET j == i + Len("/property/")
           e == DigitRunEnd(s, j)
       IN  e > j /\ StartsWithAt(s, e, "/metrics")

extract_property_id(endpoint_value) ==
    IF \E i \in 1..Len(endpoint_value) : MatchAt(endpoint_value, i)
    THEN LET i == CHOOSE a \in 1..Len(endpoint_value) :
                      /\ MatchAt(endpoint_value, a)
                      /\ \A b \in 1..(a - 1) : ~MatchAt(endpoint_value, b)
             j == i + Len("/property/")
         IN  SubSeq(endpoint_value, j, DigitRunEnd(endpoint_value, j) - 1)
    ELSE None

new_endpoint(pid, y, m) ==
    BaseUrl \o pid \o "/metrics?year=" \o ToString(y) \o "&month=" \o ToString(m)

----------------------------------------------------------------------------
(* Initial config files *)

PropertyEndpoint == "https://host/ws/property/12345/metrics?year=2024&month=1"
OtherEndpoint == "https://api.weather.example/v1/current?city=Atlanta"

Profiles(endpoints, intervals, users, passwords) ==
    {Section(t[1], t[2], t[3], t[4]) :
        t \in endpoints \X intervals \X users \X passwords}

AllProfiles ==
    Profiles({Absent, OtherEndpoint, PropertyEndpoint},
             {Absent, "60", SentinelInterval, NeverSchedule},
             {Absent, "user"}, {Absent, "secret"})

FewProfiles ==
    Profiles({new_endpoint("7", 2023, 6)}, {"60"}, {"user"}, {Absent, "secret"})

WeatherProfiles ==
    Profiles({new_endpoint("999", 2023, 6)}, {"60"}, {"user"}, {"secret"})

InputFiles ==
    {<<>>} \cup
    {config_write((PropertyA :> t[1]) @@ (WeatherSection :> t[2]) @@ (PropertyB :> t[3]),
                  <<PropertyA, WeatherSection, PropertyB>>) :
        t \in AllProfiles \X WeatherProfiles \X FewProfiles}

InputDates == [year : {StartYear}, month : {1, 12}]

InputFilesSearch ==
    {<<>>} \cup
    {config_write((PropertyA :> t[1]) @@ (WeatherSection :> t[2]),
                  <<PropertyA, WeatherSection>>) :
        t \in AllProfiles \X WeatherProfiles}

InputDatesSearch == [year : {StartYear}, month : 1..12]

InputFilesTwice ==
    {<<>>} \cup
    {config_write((PropertyA :> t[1]) @@ (WeatherSection :> t[2]),
                  <<WeatherSection, PropertyA>>) :
        t \in AllProfiles \X WeatherProfiles}

InputDatesTwice == [year : {StartYear}, month : {1, 12}]

----------------------------------------------------------------------------
(* main: lines 191-198 *)

ReadConfig ==
    /\ pc = "start"
    /\ LET parsed == read_config(file)
       IN  /\ config' = parsed.opts
           /\ sections' = parsed.sections
           /\ pc' = IF parsed.sections = <<>> THEN "done" ELSE "prepass"
    /\ UNCHANGED <<file, idx, today, property_id, year, month, years_checked,
                   updated_count, skipped_count, error_count, result, outcome,
                   httpCalls, foundCount, lastFetch, writes, writesAtFound,
                   writeFailures, writeFailed, onlyEmpty, fileAtStart, run,
                   fileAfterRun1, run1Completed>>

(* main: the loop of lines 201-207 *)

(* A pre-pass that also leaves the never-schedule alone *)

RECURSIVE PrePassConfig_keepNever(_, _)
PrePassConfig_keepNever(cfg, secs) ==
    IF secs = <<>> THEN cfg
    ELSE LET section == Head(secs)
             next == IF /\ section # WeatherSection
                        /\ has_option(cfg, section, "polling_interval")
                        /\ config_get(cfg, section, "polling_interval")
                               \notin {SentinelInterval, NeverSchedule}
                     THEN config_set(cfg, section, "polling_interval", SentinelInterval)
                     ELSE cfg
         IN  PrePassConfig_keepNever(next, Tail(secs))

(* A pre-pass that does not exclude the weather section *)

RECURSIVE PrePassConfig_allSections(_, _)
PrePassConfig_allSections(cfg, secs) ==
    IF secs = <<>> THEN cfg
    ELSE LET section == Head(secs)
             next == IF /\ has_option(cfg, section, "polling_interval")
                        /\ config_get(cfg, section, "polling_interval") # SentinelInterval
                     THEN config_set(cfg, section, "polling_interval", SentinelInterval)
                     ELSE cfg
         IN  PrePassConfig_allSections(next, Tail(secs))

RECURSIVE PrePassConfig(_, _)
PrePassConfig(cfg, secs) ==
    IF secs = <<>> THEN cfg
    ELSE LET section == Head(secs)
             next == IF /\ section # WeatherSection
                        /\ has_option(cfg, section, "polling_interval")
                        /\ config_get(cfg, section, "polling_interval") # SentinelInterval
                     THEN config_set(cfg, section, "polling_interval", SentinelInterval)
                     ELSE cfg
         IN  PrePassConfig(next, Tail(secs))

(* main: lines 200-223, the pre-pass when no write fails *)

PrePass ==
    /\ pc = "prepass"
    /\ LET changed == PrePassConfig(config, sections)
           modified == changed # config
       IN  IF modified
           THEN /\ file' = config_write(changed, sections)
                /\ config' = read_config(file').opts
                /\ writes' = writes + 1
           ELSE /\ UNCHANGED <<file, config, writes>>
    /\ idx' = 1
    /\ updated_count' = 0
    /\ skipped_count' = 0
    /\ error_count' = 0
    /\ pc' = "main"
    /\ UNCHANGED <<sections, today, property_id, year, month, years_checked,
                   result, outcome, httpCalls, foundCount, lastFetch,
                   writesAtFound, writeFailures, writeFailed, onlyEmpty,
                   fileAtStart, run, fileAfterRun1, run1Completed>>

(* A pre-pass that logs the failed write and carries on *)

PrePassWriteError_ignored ==
    /\ pc = "prepass"
    /\ writeFailures < MaxWriteFailures
    /\ LET changed == PrePassConfig(config, sections)
       IN  /\ changed # config
           /\ config' = changed
    /\ writes' = writes + 1
    /\ writeFailures' = writeFailures + 1
    /\ writeFailed' = TRUE
    /\ idx' = 1
    /\ updated_count' = 0
    /\ skipped_count' = 0
    /\ error_count' = 0
    /\ pc' = "main"
    /\ UNCHANGED <<file, sections, today, property_id, year, month,
                   years_checked, result, outcome, httpCalls, foundCount,
                   lastFetch, writesAtFound, onlyEmpty, fileAtStart, run,
                   fileAfterRun1, run1Completed>>

(* main: lines 200-211 and 258-262, open() raises in the pre-pass *)

PrePassWriteError ==
    /\ pc = "prepass"
    /\ writeFailures < MaxWriteFailures
    /\ LET changed == PrePassConfig(config, sections)
       IN  /\ changed # config
           /\ config' = changed
    /\ writes' = writes + 1
    /\ writeFailures' = writeFailures + 1
    /\ writeFailed' = TRUE
    /\ pc' = "aborted"
    /\ UNCHANGED <<file, sections, idx, today, property_id, year, month,
                   years_checked, updated_count, skipped_count, error_count,
                   result, outcome, httpCalls, foundCount, lastFetch,
                   writesAtFound, onlyEmpty, fileAtStart, run, fileAfterRun1,
                   run1Completed>>

----------------------------------------------------------------------------
(* A tally whose second test is an `if` of its own: a success falls into *)
(* its else branch too                                                   *)

Tally_secondIf(section, success) ==
    /\ updated_count' = IF success THEN updated_count + 1 ELSE updated_count
    /\ error_count' = IF ~success THEN error_count + 1 ELSE error_count
    /\ skipped_count' = IF success THEN skipped_count + 1 ELSE skipped_count
    /\ outcome' = [outcome EXCEPT ![section] = IF success THEN "Updated" ELSE "Error"]

(* main: lines 246-251, the tally of get_score's return value *)

Tally(section, success) ==
    /\ updated_count' = IF success THEN updated_count + 1 ELSE updated_count
    /\ error_count' = IF ~success THEN error_count + 1 ELSE error_count
    /\ skipped_count' = skipped_count
    /\ outcome' = [outcome EXCEPT ![section] = IF success THEN "Updated" ELSE "Error"]

(* get_score returns to main, which tallies and moves to the next section *)

Return(success, y, m) ==
    /\ result' = [called |-> sections[idx], success |-> success,
                  year |-> y, month |-> m,
                  firstFoundLast |-> (foundCount' = 1 /\ lastFetch' = "Found")]
    /\ Tally(sections[idx], success)
    /\ idx' = idx + 1
    /\ pc' = "main"

Continue ==
    /\ pc' = "loop"
    /\ UNCHANGED <<idx, result, outcome, updated_count, skipped_count, error_count>>

(* main: lines 225-230 *)

MainSkipWeather ==
    /\ pc = "main"
    /\ idx <= Len(sections)
    /\ sections[idx] = WeatherSection
    /\ skipped_count' = skipped_count + 1
    /\ outcome' = [outcome EXCEPT ![sections[idx]] = "Skipped"]
    /\ idx' = idx + 1
    /\ UNCHANGED <<file, config, sections, pc, today, property_id, year, month,
                   years_checked, updated_count, error_count, result, httpCalls,
                   foundCount, lastFetch, writes, writesAtFound, writeFailures,
                   writeFailed, onlyEmpty, fileAtStart, run, fileAfterRun1,
                   run1Completed>>

(* main: lines 232-235 *)

MainSkipNoEndpoint ==
    /\ pc = "main"
    /\ idx <= Len(sections)
    /\ sections[idx] # WeatherSection
    /\ ~has_option(config, sections[idx], "endpoint")
    /\ skipped_count' = skipped_count + 1
    /\ outcome' = [outcome EXCEPT ![sections[idx]] = "Skipped"]
    /\ idx' = idx + 1
    /\ UNCHANGED <<file, config, sections, pc, today, property_id, year, month,
                   years_checked, updated_count, error_count, result, httpCalls,
                   foundCount, lastFetch, writes, writesAtFound, writeFailures,
                   writeFailed, onlyEmpty, fileAtStart, run, fileAfterRun1,
                   run1Completed>>

(* main: lines 237-243 *)

MainSkipNoPropertyId ==
    /\ pc = "main"
    /\ idx <= Len(sections)
    /\ sections[idx] # WeatherSection
    /\ has_option(config, sections[idx], "endpoint")
    /\ extract_property_id(config_get(config, sections[idx], "endpoint")) = None
    /\ skipped_count' = skipped_count + 1
    /\ outcome' = [outcome EXCEPT ![sections[idx]] = "Skipped"]
    /\ idx' = idx + 1
    /\ UNCHANGED <<file, config, sections, pc, today, property_id, year, month,
                   years_checked, updated_count, error_count, result, httpCalls,
                   foundCount, lastFetch, writes, writesAtFound, writeFailures,
                   writeFailed, onlyEmpty, fileAtStart, run, fileAfterRun1,
                   run1Completed>>

(* main: lines 237-245 and get_score: lines 80-86 *)

MainCallGetScore ==
    /\ pc = "main"
    /\ idx <= Len(sections)
    /\ sections[idx] # WeatherSection
    /\ has_option(config, sections[idx], "endpoint")
    /\ LET pid == extract_property_id(config_get(config, sections[idx], "endpoint"))
       IN  /\ pid # None
           /\ property_id' = pid
    /\ year' = today.year
    /\ month' = today.month
    /\ years_checked' = 0
    /\ foundCount' = 0
    /\ lastFetch' = NoFetch
    /\ IF sections[idx] = WeatherSection
          THEN Return(FALSE, 0, 0)
          ELSE Continue
    /\ UNCHANGED <<file, config, sections, today, httpCalls, writes,
                   writesAtFound, writeFailures, writeFailed, onlyEmpty,
                   fileAtStart, run, fileAfterRun1, run1Completed>>

(* main: lines 225 and 253-256 *)

MainFinish ==
    /\ pc = "main"
    /\ idx > Len(sections)
    /\ pc' = "done"
    /\ UNCHANGED <<file, config, sections, idx, today, property_id, year, month,
                   years_checked, updated_count, skipped_count, error_count,
                   result, outcome, httpCalls, foundCount, lastFetch, writes,
                   writesAtFound, writeFailures, writeFailed, onlyEmpty,
                   fileAtStart, run, fileAfterRun1, run1Completed>>

----------------------------------------------------------------------------
(* get_score: the loop of lines 88-165 *)

InLoop ==
    /\ pc = "loop"
    /\ years_checked <= max_years_to_check

RecordFetch(kind) ==
    /\ httpCalls' = [httpCalls EXCEPT ![sections[idx]] = @ + 1]
    /\ lastFetch' = kind
    /\ foundCount' = IF kind = "Found" THEN foundCount + 1 ELSE foundCount
    /\ onlyEmpty' = (onlyEmpty /\ kind = "Empty")

(* OnEmptyScore that forgets to count the year it wraps into *)

OnEmptyScore_uncounted ==
    /\ IF month = 1
          THEN /\ year' = year - 1
               /\ month' = 12
               /\ years_checked' = years_checked
          ELSE /\ month' = month - 1
               /\ UNCHANGED <<year, years_checked>>
    /\ IF years_checked' > max_years_to_check
          THEN Return(FALSE, 0, 0)
          ELSE Continue

(* lines 109-118: the score text is empty *)

OnEmptyScore ==
    /\ IF month = 1
          THEN /\ year' = year - 1
               /\ month' = 12
               /\ years_checked' = years_checked + 1
          ELSE /\ month' = month - 1
               /\ UNCHANGED <<year, years_checked>>
    /\ IF years_checked' > max_years_to_check
          THEN Return(FALSE, 0, 0)
          ELSE Continue

(* lines 139-151: except requests.exceptions.RequestException *)

OnRequestException ==
    /\ IF month = 1
          THEN /\ year' = year - 1
               /\ month' = 12
               /\ years_checked' = years_checked + 1
          ELSE /\ month' = month - 1
               /\ UNCHANGED <<year, years_checked>>
    /\ IF years_checked' > max_years_to_check
          THEN Return(FALSE, 0, 0)
          ELSE Continue

(* OnException that wraps to December of the same year *)

OnException_sameYear ==
    /\ IF month = 1
          THEN /\ year' = year
               /\ month' = 12
               /\ years_checked' = years_checked + 1
          ELSE /\ month' = month - 1
               /\ UNCHANGED <<year, years_checked>>
    /\ IF years_checked' > max_years_to_check
          THEN Return(FALSE, 0, 0)
          ELSE Continue

(* lines 153-165: except Exception *)

OnException ==
    /\ IF month = 1
          THEN /\ year' = year - 1
               /\ month' = 12
               /\ years_checked' = years_checked + 1
          ELSE /\ month' = month - 1
               /\ UNCHANGED <<year, years_checked>>
    /\ IF years_checked' > max_years_to_check
          THEN Return(FALSE, 0, 0)
          ELSE Continue

(* lines 92-95: the section has no credentials *)

NoCredentials ==
    /\ InLoop
    /\ ~get_credentials_from_config(config, sections[idx]).ok
    /\ UNCHANGED <<file, config, sections, today, property_id, year, month,
                   years_checked, httpCalls, foundCount, lastFetch, writes,
                   writesAtFound, writeFailures, writeFailed, onlyEmpty,
                   fileAtStart, run, fileAfterRun1, run1Completed>>
    /\ Return(FALSE, 0, 0)

(* lines 89-118: the response has no score text *)

FetchEmpty ==
    /\ InLoop
    /\ get_credentials_from_config(config, sections[idx]).ok
    /\ RecordFetch("Empty")
    /\ OnEmptyScore
    /\ UNCHANGED <<file, config, sections, today, property_id, writes,
                   writesAtFound, writeFailures, writeFailed, fileAtStart, run,
                   fileAfterRun1, run1Completed>>

(* lines 89-101 and 139-151: requests.get or raise_for_status raises *)

FetchHttpError ==
    /\ InLoop
    /\ get_credentials_from_config(config, sections[idx]).ok
    /\ RecordFetch("HttpError")
    /\ OnRequestException
    /\ UNCHANGED <<file, config, sections, today, property_id, writes,
                   writesAtFound, writeFailures, writeFailed, fileAtStart, run,
                   fileAfterRun1, run1Completed>>

(* lines 89-104 and 153-165: parsing the response raises *)

FetchOtherError ==
    /\ InLoop
    /\ get_credentials_from_config(config, sections[idx]).ok
    /\ RecordFetch("OtherError")
    /\ OnException
    /\ UNCHANGED <<file, config, sections, today, property_id, writes,
                   writesAtFound, writeFailures, writeFailed, fileAtStart, run,
                   fileAfterRun1, run1Completed>>

(* lines 89-125: a score is found; first config.set of polling_interval *)

FetchFound ==
    /\ InLoop
    /\ get_credentials_from_config(config, sections[idx]).ok
    /\ RecordFetch("Found")
    /\ config' = config_set(config, sections[idx], "polling_interval", SentinelInterval)
    /\ writesAtFound' = writes
    /\ pc' = "second_set"
    /\ UNCHANGED <<file, sections, idx, today, property_id, year, month,
                   years_checked, updated_count, skipped_count, error_count,
                   result, outcome, writes, writeFailures, writeFailed,
                   fileAtStart, run, fileAfterRun1, run1Completed>>

(* A second set that writes the never-schedule before the endpoint *)

SetEndpoint_intervalFirst ==
    /\ pc = "second_set"
    /\ config' = config_set(config, sections[idx], "polling_interval", NeverSchedule)
    /\ pc' = "third_set"
    /\ UNCHANGED <<file, sections, idx, today, property_id, year, month,
                   years_checked, updated_count, skipped_count, error_count,
                   result, outcome, httpCalls, foundCount, lastFetch, writes,
                   writesAtFound, writeFailures, writeFailed, onlyEmpty,
                   fileAtStart, run, fileAfterRun1, run1Completed>>

(* line 128 *)

SetEndpoint ==
    /\ pc = "second_set"
    /\ config' = config_set(config, sections[idx], "endpoint",
                            new_endpoint(property_id, year, month))
    /\ pc' = "third_set"
    /\ UNCHANGED <<file, sections, idx, today, property_id, year, month,
                   years_checked, updated_count, skipped_count, error_count,
                   result, outcome, httpCalls, foundCount, lastFetch, writes,
                   writesAtFound, writeFailures, writeFailed, onlyEmpty,
                   fileAtStart, run, fileAfterRun1, run1Completed>>

(* line 129 *)

SetInterval ==
    /\ pc = "third_set"
    /\ config' = config_set(config, sections[idx], "polling_interval", NeverSchedule)
    /\ pc' = "write"
    /\ UNCHANGED <<file, sections, idx, today, property_id, year, month,
                   years_checked, updated_count, skipped_count, error_count,
                   result, outcome, httpCalls, foundCount, lastFetch, writes,
                   writesAtFound, writeFailures, writeFailed, onlyEmpty,
                   fileAtStart, run, fileAfterRun1, run1Completed>>

(* lines 132-137: the config is written and get_score returns the month *)

WriteConfig ==
    /\ pc = "write"
    /\ file' = config_write(config, sections)
    /\ writes' = writes + 1
    /\ UNCHANGED <<config, sections, today, property_id, year, month,
                   years_checked, httpCalls, foundCount, lastFetch,
                   writesAtFound, writeFailures, writeFailed, onlyEmpty,
                   fileAtStart, run, fileAfterRun1, run1Completed>>
    /\ Return(TRUE, year, month)

(* lines 132 and 153-165: open() raises inside the try block *)

WriteConfigError ==
    /\ pc = "write"
    /\ writeFailures < MaxWriteFailures
    /\ writes' = writes + 1
    /\ writeFailures' = writeFailures + 1
    /\ writeFailed' = TRUE
    /\ UNCHANGED <<file, config, sections, today, property_id, httpCalls,
                   foundCount, lastFetch, writesAtFound, onlyEmpty, fileAtStart,
                   run, fileAfterRun1, run1Completed>>
    /\ OnException

----------------------------------------------------------------------------
(* The script is started again on the file the previous run left *)

RunAgain ==
    /\ pc \in {"done", "aborted"}
    /\ run = 1
    /\ run' = 2
    /\ fileAfterRun1' = file
    /\ run1Completed' = (pc = "done")
    /\ fileAtStart' = file
    /\ pc' = "start"
    /\ config' = EmptyFn
    /\ sections' = <<>>
    /\ idx' = 0
    /\ property_id' = None
    /\ year' = 0
    /\ month' = 0
    /\ years_checked' = 0
    /\ updated_count' = 0
    /\ skipped_count' = 0
    /\ error_count' = 0
    /\ result' = NoResult
    /\ outcome' = [s \in SectionNames |-> "none"]
    /\ httpCalls' = [s \in SectionNames |-> 0]
    /\ foundCount' = 0
    /\ lastFetch' = NoFetch
    /\ writes' = 0
    /\ writesAtFound' = 0
    /\ writeFailed' = FALSE
    /\ UNCHANGED <<file, today, writeFailures, onlyEmpty>>

----------------------------------------------------------------------------
(* Initial states: the config file and the date the script is started with *)

InitWith(files, dates) ==
    /\ file \in files
    /\ today \in dates
    /\ fileAtStart = file
    /\ fileAfterRun1 = <<>>
    /\ run1Completed = FALSE
    /\ run = 1
    /\ pc = "start"
    /\ config = EmptyFn
    /\ sections = <<>>
    /\ idx = 0
    /\ property_id = None
    /\ year = 0
    /\ month = 0
    /\ years_checked = 0
    /\ updated_count = 0
    /\ skipped_count = 0
    /\ error_count = 0
    /\ result = NoResult
    /\ outcome = [s \in SectionNames |-> "none"]
    /\ httpCalls = [s \in SectionNames |-> 0]
    /\ foundCount = 0
    /\ lastFetch = NoFetch
    /\ writes = 0
    /\ writesAtFound = 0
    /\ writeFailures = 0
    /\ writeFailed = FALSE
    /\ onlyEmpty = TRUE

Init == InitWith(InputFiles, InputDates)

NextRun ==
    \/ ReadConfig
    \/ PrePass
    \/ PrePassWriteError
    \/ MainSkipWeather
    \/ MainSkipNoEndpoint
    \/ MainSkipNoPropertyId
    \/ MainCallGetScore
    \/ MainFinish
    \/ NoCredentials
    \/ FetchEmpty
    \/ FetchHttpError
    \/ FetchOtherError
    \/ FetchFound
    \/ SetEndpoint
    \/ SetInterval
    \/ WriteConfig
    \/ WriteConfigError

Next == NextRun

Spec == Init /\ [][Next]_vars

InitSearch == InitWith(InputFilesSearch, InputDatesSearch)

SpecSearch == InitSearch /\ [][Next]_vars

InitTwice == InitWith(InputFilesTwice, InputDatesTwice)

NextTwice == NextRun \/ RunAgain

SpecTwice == InitTwice /\ [][NextTwice]_vars

----------------------------------------------------------------------------
(* Views of the state used by the properties *)

FileConfig == read_config(file).opts

Before == read_config(fileAtStart).opts

AfterRun1 == read_config(fileAfterRun1).opts

Current == sections[idx]

MissingCredentials(cfg, s) ==
    \/ "auth_user" \notin DOMAIN cfg[s]
    \/ "auth_password" \notin DOMAIN cfg[s]

Returned == pc = "main" /\ result.called # None

Exhausted(r) == ~r.success /\ r.year = 0 /\ r.month = 0

----------------------------------------------------------------------------
(* C1 as stated: with max_years_to_check = 1 get_score makes at most 13    *)
(* HTTP fetches for a property, whatever the starting month.               *)

C1_AtMostThirteenAttempts ==
    \A s \in SectionNames : httpCalls[s] <= 13

(* C1 amended: get_score makes at most (starting month + 12) HTTP fetches  *)
(* for a property, the months of the current year back from the starting   *)
(* month and the twelve months of the previous year: 13 when started in    *)
(* January, 24 when started in December.                                   *)

C1_AttemptsWithinWindow ==
    \A s \in SectionNames : httpCalls[s] <= today.month + 12 * max_years_to_check

C1_Witness ==
    /\ Returned
    /\ Exhausted(result)
    /\ today.month = 12
    /\ httpCalls[result.called] = 24

----------------------------------------------------------------------------
(* C2 as stated: a failed write of the config file, in the pre-pass or in  *)
(* a section's endpoint update, aborts the run at once: no further fetch   *)
(* for that section, no later section processed.                           *)

C2_WriteErrorAborts ==
    writeFailed => pc = "aborted"

----------------------------------------------------------------------------
(* C3 as stated: a section handed to get_score whose auth_user or          *)
(* auth_password is missing is tallied as Skipped, not as Error.           *)

C3_MissingCredentialsSkipped ==
    \A s \in DOMAIN config :
        (outcome[s] # "none" /\ MissingCredentials(config, s))
            => outcome[s] = "Skipped"

----------------------------------------------------------------------------
(* C4 *)

AfterPrePass == pc = "main" /\ idx = 1

IntervalIs(cfg, s, v) ==
    /\ has_option(cfg, s, "polling_interval")
    /\ config_get(cfg, s, "polling_interval") = v

(* C4 as stated: after the pre-pass a non-weather section's                *)
(* polling_interval is "999999" iff the section had a polling_interval     *)
(* that was not already "999999" before the pre-pass.                      *)

C4_SentinelIffChanged ==
    AfterPrePass =>
        \A s \in DOMAIN Before \ {WeatherSection} :
            IntervalIs(FileConfig, s, SentinelInterval)
                <=> /\ has_option(Before, s, "polling_interval")
                    /\ ~IntervalIs(Before, s, SentinelInterval)

(* C4 amended: after the pre-pass a non-weather section's polling_interval *)
(* is "999999", in the config object and in the file, iff the section had  *)
(* a polling_interval option before the pre-pass, whatever its value; a    *)
(* section without the option still has none.                              *)

C4_SentinelIffHadOption ==
    AfterPrePass =>
        \A s \in DOMAIN Before \ {WeatherSection} :
            /\ IntervalIs(FileConfig, s, SentinelInterval)
                   <=> has_option(Before, s, "polling_interval")
            /\ IntervalIs(config, s, SentinelInterval)
                   <=> has_option(Before, s, "polling_interval")
            /\ has_option(FileConfig, s, "polling_interval")
                   <=> has_option(Before, s, "polling_interval")

C4_Witness ==
    /\ AfterPrePass
    /\ IntervalIs(Before, PropertyA, SentinelInterval)
    /\ IntervalIs(Before, PropertyB, "60")
    /\ IntervalIs(FileConfig, PropertyA, SentinelInterval)
    /\ IntervalIs(FileConfig, PropertyB, SentinelInterval)

----------------------------------------------------------------------------
(* C5 *)

MonthsBack(date, k) ==
    LET n == date.year * 12 + (date.month - 1) - k
    IN  [year |-> n \div 12, month |-> (n % 12) + 1]

(* C5 as stated: when the fetches of a get_score call were k results       *)
(* without a score followed by one with a score, the call returns          *)
(* (True, year, month) for the month k months before the starting month,   *)
(* after k + 1 fetches, and the file holds for that section the endpoint   *)
(* with the section's property id and that year and month.                 *)

C5_FoundAfterKMisses ==
    (Returned /\ result.firstFoundLast) =>
        LET s == result.called
            k == httpCalls[s] - 1
            d == MonthsBack(today, k)
        IN  /\ result.success
            /\ result.year = d.year
            /\ result.month = d.month
            /\ has_option(FileConfig, s, "endpoint")
            /\ config_get(FileConfig, s, "endpoint")
                   = BaseUrl \o extract_property_id(config_get(Before, s, "endpoint"))
                       \o "/metrics?year=" \o ToString(d.year)
                       \o "&month=" \o ToString(d.month)

----------------------------------------------------------------------------
(* C6: when the section handed to get_score lacks auth_user or             *)
(* auth_password, get_score returns (False, None, None) without any HTTP   *)
(* call, without changing the config object and without writing the file.  *)

C6_NoCredentialsNoEffect ==
    [][(pc = "loop" /\ MissingCredentials(config, Current)) =>
          /\ pc' = "main"
          /\ result'.called = Current
          /\ Exhausted(result')
          /\ httpCalls[Current] = 0
          /\ httpCalls' = httpCalls
          /\ config' = config
          /\ file' = file
          /\ writes' = writes]_vars

C6_Witness ==
    /\ Returned
    /\ result.called = PropertyA
    /\ Exhausted(result)
    /\ has_option(config, PropertyA, "auth_user")
    /\ ~has_option(config, PropertyA, "auth_password")
    /\ httpCalls[PropertyA] = 0
    /\ file = fileAtStart

----------------------------------------------------------------------------
(* C7 *)

SameValues(a, b) ==
    /\ DOMAIN a = DOMAIN b
    /\ \A s \in DOMAIN a : \A k \in {"endpoint", "polling_interval"} :
           /\ has_option(a, s, k) <=> has_option(b, s, k)
           /\ has_option(a, s, k) => config_get(a, s, k) = config_get(b, s, k)

SecondRunOver == run = 2 /\ pc \in {"done", "aborted"}

(* C7 as stated: when main is run twice and every fetch of both runs       *)
(* returns an empty score, the endpoint and polling_interval values in the *)
(* file after the second run equal those after the first.                  *)

----------------------------------------------------------------------------
(* C8: every fetch without a score, whether the text is empty, the request *)
(* raises or anything else raises, moves (year, month) to (year, month-1)  *)
(* when month > 1 and to (year-1, 12) with years_checked + 1 when          *)
(* month = 1; the search is exhausted exactly when years_checked then      *)
(* exceeds max_years_to_check and otherwise goes on from the new month.    *)

FetchWithoutScore ==
    /\ httpCalls' # httpCalls
    /\ lastFetch' \in {"Empty", "HttpError", "OtherError"}

C8_StepBack ==
    [][FetchWithoutScore =>
          /\ month > 1 => /\ year' = year
                          /\ month' = month - 1
                          /\ years_checked' = years_checked
          /\ month = 1 => /\ year' = year - 1
                          /\ month' = 12
                          /\ years_checked' = years_checked + 1
          /\ IF years_checked' > max_years_to_check
                THEN pc' = "main" /\ result'.called = Current /\ Exhausted(result')
                ELSE pc' = "loop" /\ idx' = idx /\ result' = result]_vars

C8_Witness ==
    /\ pc = "loop"
    /\ lastFetch = "OtherError"
    /\ today.month = 1
    /\ httpCalls[Current] = 1
    /\ year = today.year - 1
    /\ month = 12
    /\ years_checked = 1

----------------------------------------------------------------------------
(* C9: the weather section is left out of everything: no HTTP call is made *)
(* for it and the file keeps all of its option values, whatever happens to *)
(* the other sections.                                                     *)

C9_WeatherUntouched ==
    /\ httpCalls[WeatherSection] = 0
    /\ has_section(Before, WeatherSection) =>
           /\ has_section(FileConfig, WeatherSection)
           /\ FileConfig[WeatherSection] = Before[WeatherSection]

C9_Witness ==
    /\ pc = "done"
    /\ outcome[WeatherSection] = "Skipped"
    /\ outcome[PropertyA] = "Updated"
    /\ outcome[PropertyB] = "Updated"
    /\ file # fileAtStart
    /\ extract_property_id(config_get(FileConfig, WeatherSection, "endpoint")) # None
    /\ ~MissingCredentials(FileConfig, WeatherSection)
    /\ IntervalIs(FileConfig, WeatherSection, "60")

----------------------------------------------------------------------------
(* C10 *)

OnlyOptionSet(k, v) ==
    /\ config'[Current][k] = v
    /\ \A s \in DOMAIN config : \A j \in DOMAIN config[s] :
           (s # Current \/ j # k) => (j \in DOMAIN config'[s] /\ config'[s][j] = config[s][j])
    /\ file' = file
    /\ writes' = writes

FoundEndpoint == new_endpoint(property_id, year, month)

WriteOnce ==
    /\ writes = writesAtFound
    /\ writes' = writes + 1
    /\ config' = config
    /\ file' \in {file, config_write(config, sections)}

(* C10 as stated: when a score is found polling_interval is set to         *)
(* "999999", then polling_interval to "0 0 5 31 2 ?", then endpoint to the *)
(* new endpoint, and only then is the config written, once; no write in    *)
(* between.                                                                *)

----------------------------------------------------------------------------
(* C11 *)

SameOption(a, b, s, k) ==
    /\ has_option(a, s, k) <=> has_option(b, s, k)
    /\ has_option(a, s, k) => config_get(a, s, k) = config_get(b, s, k)

RunOver == pc = "done" /\ sections # <<>>

(* C11 as stated: a section's endpoint in the file changes only when that  *)
(* section's own search ends Found: for every section tallied as Error or  *)
(* Skipped the endpoint in the file at the end of the run is the endpoint  *)
(* at the start of the run, also when a file write failed during some      *)
(* section's update.                                                       *)

C11_EndpointKeptUnlessFound ==
    RunOver =>
        \A s \in DOMAIN Before :
            outcome[s] \in {"Error", "Skipped"}
                => SameOption(FileConfig, Before, s, "endpoint")

----------------------------------------------------------------------------
(* C12 *)

PrePassDone == pc \in {"main", "loop", "second_set", "third_set", "write", "done"}

PollingDisabled ==
    \A s \in DOMAIN FileConfig \ {WeatherSection} :
        has_option(FileConfig, s, "polling_interval")
            => config_get(FileConfig, s, "polling_interval")
                   \in {SentinelInterval, NeverSchedule}

NeverExactlyForUpdated ==
    \A s \in DOMAIN FileConfig \ {WeatherSection} :
        IntervalIs(FileConfig, s, NeverSchedule) <=> outcome[s] = "Updated"

(* C12 as stated: from the end of the pre-pass to the end of the run the   *)
(* file holds, for every non-weather section with a polling_interval,      *)
(* "999999" or "0 0 5 31 2 ?"; at the end of a completed run it is         *)
(* "0 0 5 31 2 ?" exactly for the sections tallied as Updated.             *)

C12_PollingStaysDisabled ==
    /\ (PrePassDone /\ sections # <<>>) => PollingDisabled
    /\ RunOver => NeverExactlyForUpdated

----------------------------------------------------------------------------
(* C13: in a run that completes the main pass every enumerated section is  *)
(* classified exactly once: each time the main loop leaves a section       *)
(* exactly one of the three counters goes up by one, and Updated goes up   *)
(* exactly when the section's search ended Found (its update was written   *)
(* and get_score returned True); so at the end                             *)
(* Updated + Error + Skipped = number of sections.                         *)

Tallied == updated_count + error_count + skipped_count

SearchEndsFound == pc = "write" /\ pc' = "main" /\ writeFailures' = writeFailures

InMainPass == pc \in {"main", "loop", "second_set", "third_set", "write"}

C13_EachSectionTalliedOnce ==
    /\ [](RunOver => Tallied = Len(sections))
    /\ [](InMainPass => Tallied = idx - 1)
    /\ [][InMainPass =>
             /\ updated_count' = updated_count + (IF SearchEndsFound THEN 1 ELSE 0)
             /\ Tallied' = Tallied + (IF idx' # idx THEN 1 ELSE 0)
             /\ idx' \in {idx, idx + 1}
             /\ error_count' >= error_count
             /\ skipped_count' >= skipped_count]_vars

C13_Witness ==
    /\ RunOver
    /\ Len(sections) = 3
    /\ updated_count = 1
    /\ error_count = 1
    /\ skipped_count = 1
    /\ outcome[PropertyA] = "Error"
    /\ outcome[PropertyB] = "Updated"
    /\ httpCalls[PropertyA] > 0

=============================================================================
